---- MODULE Spec2Model ----
(***************************************************************************)
(* Conversation Store (src/database.py, class ChatDatabase) and the        *)
(* request handlers with the in-memory session map (src/app.py).           *)
(*                                                                         *)
(* The Store is two SQLite tables.  Every Store method opens its own       *)
(* connection and commits once, so each method call is one atomic step.    *)
(* The connections never execute PRAGMA foreign_keys = ON, and SQLite      *)
(* leaves foreign keys unenforced by default: the FOREIGN KEY ... ON       *)
(* DELETE CASCADE clause of the messages table is declared but inert.      *)
(* No statement of the program deletes from the messages table.            *)
(*                                                                         *)
(* The handlers run on Flask's threaded server: a handler is a sequence of *)
(* steps, one per access to shared state (a Store call, an access to the   *)
(* chat_sessions dict, the provider call), and steps of different requests *)
(* interleave.                                                             *)
(***************************************************************************)
EXTENDS Integers, Sequences, FiniteSets, TLC

VARIABLES sessions, messages, chat_sessions, now, reqs

vars == <<sessions, messages, chat_sessions, now, reqs>>

---------------------------------------------------------------------------
(* Bounds of the model *)

\* messages rows the table may hold
MaxMsgs == 2
\* seconds the clock may advance (CURRENT_TIMESTAMP has one-second granularity)
MaxClock == 1

\* request slots: the requests that can be in flight at the same time
Requests == {"r1", "r2"}

SessionIds == {"default", "s1"}

\* a text of 52 characters
LongText == "abcdefghijklmnopqrstuvwxyzabcdefghijklmnopqrstuvwxyz"

\* texts the provider replies with (plain text, no markdown syntax)
Replies == {"Hello there"}

\* (sender, content) pairs direct callers of add_message pass
AddArgs ==
    {<<"user", "Hi">>, <<"user", "New Chat">>, <<"user", LongText>>,
     <<"assistant", "Hello there">>}

\* titles passed to create_session: absent (None), empty, or given
TitleArgs == {<<>>, <<"">>, <<"Trip">>}

\* message texts of POST /chat
ChatTexts == {"Hi", "New Chat"}

\* JSON bodies of POST /chat: an object with the keys it carries
ChatBodies ==
    {[k \in {"message", "session_id"} |-> IF k = "message" THEN c ELSE s] :
        c \in ChatTexts \cup {""}, s \in SessionIds}
    \cup {[k \in {"message"} |-> c] : c \in {"Hi", ""}}
    \cup {[k \in {"session_id"} |-> s] : s \in SessionIds}

\* the bodies of POST /chat sent while requests run concurrently
ConcurrentChatBodies ==
    {d \in ChatBodies : "message" \in DOMAIN d => d["message"] \in {"Hi", ""}}

\* JSON bodies of POST /clear
ClearBodies ==
    {[k \in {"session_id"} |-> s] : s \in SessionIds} \cup {[k \in {} |-> ""]}

Formats == {"json", "txt", "xml"}

\* the JSON bodies of /search: query missing, empty, matching in another case,
\* matching several messages, matching none
SearchBodies ==
    {[x \in {} |-> ""], [query |-> ""], [query |-> "hi"], [query |-> "e"], [query |-> "zz"]}

\* the messages added while the queries run
QueryAddArgs == {<<"user", "Hi">>, <<"assistant", "Hello there">>}

---------------------------------------------------------------------------
(* Values *)

\* Python's None
None == [none |-> TRUE]

DefaultTitle == "New Chat"

DefaultModel == "gemini-1.5-flash"

DefaultSessionId == "default"

TitleMax == 50

\* dict.get(key, default) on a JSON object
Get(data, key, default) == IF key \in DOMAIN data THEN data[key] ELSE default

\* the title cut at 50 characters without the '...' appended
DerivedTitle_NoEllipsis(content) ==
    IF Len(content) > TitleMax THEN SubSeq(content, 1, TitleMax) ELSE content

\* content[:50] + '...' if len(content) > 50 else content
DerivedTitle(content) ==
    IF Len(content) > TitleMax THEN SubSeq(content, 1, TitleMax) \o "..." ELSE content

\* format_message on plain text without markdown syntax: one paragraph
format_message(text) == "<p>" \o text \o "</p>"

---------------------------------------------------------------------------
(* The Store: src/database.py *)

\* the row INSERT INTO sessions (id, title) VALUES (?, title or 'New Chat') makes
\* (created_at, which no statement reads back but the exports, is left out)
SessionRow(id, title) ==
    [id |-> id, updated_at |-> now,
     title |-> IF title = <<>> \/ title[1] = "" THEN DefaultTitle ELSE title[1],
     model_name |-> DefaultModel]

\* create_session: the sessions table after the INSERT (id is the primary key)
SessionsAfterCreate(id, title) ==
    [s \in DOMAIN sessions \cup {id} |->
        IF s = id THEN SessionRow(id, title) ELSE sessions[s]]

\* get_session: the row as a dict, or None
get_session(id) == IF id \in DOMAIN sessions THEN sessions[id] ELSE None

\* add_message, first statement: INSERT INTO messages
MessagesAfterAdd(sid, sender, content, formatted) ==
    Append(messages, [session_id |-> sid, sender |-> sender, content |-> content,
                      formatted_content |-> formatted, timestamp |-> now])

\* the title UPDATE with its WHERE clause reduced to the id: every user message
\* retitles the session
TitleAfterAdd_Unguarded(title, sender, content) ==
    IF sender = "user" THEN DerivedTitle(content) ELSE title

\* the title UPDATE guarded by WHERE title = 'New Chat', run only for sender 'user'
TitleAfterAdd(title, sender, content) ==
    IF sender = "user" /\ title = DefaultTitle THEN DerivedTitle(content) ELSE title

\* add_message, second and third statement: the UPDATEs of the session row
\* WHERE id = ? (no row, no change)
SessionsAfterAdd(sid, sender, content) ==
    [s \in DOMAIN sessions |->
        IF s = sid
        THEN [sessions[s] EXCEPT !.updated_at = now,
                                 !.title = TitleAfterAdd(@, sender, content)]
        ELSE sessions[s]]

\* the DELETE without its WHERE clause
SessionsAfterDelete_All(id) == [s \in {} |-> None]

\* delete_session: DELETE FROM sessions WHERE id = ?
SessionsAfterDelete(id) == [s \in DOMAIN sessions \ {id} |-> sessions[s]]

\* delete_session leaves the messages table as it is: foreign keys are not
\* enforced on the connection, so the cascade does not run
MessagesAfterDelete(id) == messages

\* the rows of a session in rowid (insertion) order
RowsOf(sid) == SelectSeq(messages, LAMBDA m : m.session_id = sid)

\* the dict get_messages builds from a row
MessageDict(m) ==
    [sender |-> m.sender, content |-> m.content,
     formatted_content |-> m.formatted_content, timestamp |-> m.timestamp]

Orderings(n) ==
    {p \in [1..n -> 1..n] : \A i, j \in 1..n : i # j => p[i] # p[j]}

\* ORDER BY timestamp ASC: the rows in some order with non-decreasing timestamps;
\* SQL leaves the order of rows with equal sort keys unspecified
OrderByTimestamp(rows) ==
    {[i \in 1..Len(rows) |-> rows[p[i]]] :
        p \in {q \in Orderings(Len(rows)) :
                 \A i, j \in 1..Len(rows) :
                    i < j => rows[q[i]].timestamp <= rows[q[j]].timestamp}}

\* get_messages: the results the call can return in the current state
get_messages(sid) ==
    {[i \in 1..Len(rows) |-> MessageDict(rows[i])] : rows \in OrderByTimestamp(RowsOf(sid))}

\* the sender written as stored, without .upper()
Upper_AsIs(sender) == sender

\* str.upper() on the sender values in use
Upper(sender) ==
    CASE sender = "user" -> "USER"
      [] sender = "assistant" -> "ASSISTANT"
      [] sender = "system" -> "SYSTEM"

\* export_session after its two reads (session, messages), for a format
export_session(session, msgs, format) ==
    IF format = "json"
    THEN [kind |-> "ok", format |-> "json", session |-> session, messages |-> msgs]
    ELSE IF format = "txt"
    THEN IF session = None
         THEN [kind |-> "raise", exc |-> "TypeError"]
         ELSE [kind |-> "ok", format |-> "txt",
               title |-> session.title,
               model |-> session.model_name,
               entries |-> [i \in 1..Len(msgs) |->
                              [label |-> Upper(msgs[i].sender), timestamp |-> msgs[i].timestamp,
                               content |-> msgs[i].content]]]
    ELSE [kind |-> "raise", exc |-> "ValueError"]

---------------------------------------------------------------------------
(* Requests *)

Idle ==
    [kind |-> "none", pc |-> "idle", session_id |-> "", user_message |-> "",
     format |-> "", query |-> "", live |-> FALSE, overtaken |-> FALSE, session |-> None,
     messages |-> <<>>, rows0 |-> 0,
     status |-> 0, resp |-> None]

\* no request occupies the slot
Free(r) == reqs[r].pc = "idle"

\* a response is delivered before anything else is observed: no handler has
\* returned without its slot having been freed
NoneDone == \A x \in Requests : reqs[x].pc # "done"

\* the handler of r returns: status and body
Return(rq, r, status, resp) ==
    [rq EXCEPT ![r].pc = "done", ![r].status = status, ![r].resp = resp,
               ![r].live = FALSE, ![r].messages = <<>>]

Init ==
    /\ sessions = [s \in {} |-> None]
    /\ messages = <<>>
    /\ chat_sessions = [s \in {} |-> <<>>]
    /\ now = 0
    /\ reqs = [r \in Requests |-> Idle]

\* the wall clock reaches the next second
Tick ==
    /\ NoneDone
    /\ now < MaxClock
    /\ now' = now + 1
    /\ UNCHANGED <<sessions, messages, chat_sessions, reqs>>

\* the response of r has been delivered
respond(r) ==
    /\ reqs[r].pc = "done"
    /\ reqs' = [reqs EXCEPT ![r] = Idle]
    /\ UNCHANGED <<sessions, messages, chat_sessions, now>>

\* the process is restarted while no request is in flight: the module-level
\* dict starts empty (line 27), the database file stays
restart ==
    /\ \A x \in Requests : Free(x)
    /\ chat_sessions # [s \in {} |-> <<>>]
    /\ chat_sessions' = [s \in {} |-> <<>>]
    /\ UNCHANGED <<sessions, messages, now, reqs>>

---------------------------------------------------------------------------
(* Direct calls of the Store's methods *)

\* the table has room for one more row
Room == Len(messages) < MaxMsgs

\* db.create_session(id, title) on an id that has no row (a second INSERT of
\* the primary key raises IntegrityError and changes nothing)
db_create_session(id, title) ==
    /\ NoneDone
    /\ id \notin DOMAIN sessions
    /\ sessions' = SessionsAfterCreate(id, title)
    /\ UNCHANGED <<messages, chat_sessions, now, reqs>>

\* db.add_message(session_id, sender, content)
db_add_message(sid, sender, content) ==
    /\ NoneDone
    /\ Room
    /\ messages' = MessagesAfterAdd(sid, sender, content, <<>>)
    /\ sessions' = SessionsAfterAdd(sid, sender, content)
    /\ UNCHANGED <<chat_sessions, now, reqs>>

\* db.delete_session(id)
db_delete_session(id) ==
    /\ NoneDone
    /\ sessions' = SessionsAfterDelete(id)
    /\ messages' = MessagesAfterDelete(id)
    /\ UNCHANGED <<chat_sessions, now, reqs>>

---------------------------------------------------------------------------
(* POST /chat: src/app.py, chat *)

\* every stored message replayed as a user turn
Turn_AllUser(msg) == [role |-> "user", parts |-> <<msg.content>>]

\* the turn built from a stored message
Turn(msg) ==
    [role |-> IF msg.sender = "user" THEN "user" ELSE "model", parts |-> <<msg.content>>]

\* the history list built from the loaded messages
History(msgs) == [i \in 1..Len(msgs) |-> Turn(msgs[i])]

\* requests other than r lose their hold on the map's object for sid when the
\* entry is replaced or removed
Unhold(r, sid, rq) ==
    [x \in Requests |->
        IF x # r /\ rq[x].session_id = sid THEN [rq[x] EXCEPT !.live = FALSE] ELSE rq[x]]

\* the map with the entry of sid set to a chat object with this history
WithEntry(sid, history) ==
    [s \in DOMAIN chat_sessions \cup {sid} |->
        IF s = sid THEN history ELSE chat_sessions[s]]

\* the deletion handlers without their del statement
WithoutEntry_Kept(sid) == chat_sessions

\* the map without the entry of sid
WithoutEntry(sid) == [s \in DOMAIN chat_sessions \ {sid} |-> chat_sessions[s]]

\* a /chat request for sid begins: the deletions of sid that have returned
\* lie before a later /chat request from here on
Reopen(sid) ==
    [x \in Requests |->
        IF reqs[x].session_id = sid THEN [reqs[x] EXCEPT !.overtaken = FALSE] ELSE reqs[x]]

\* the handler without the test of line 43: an empty message goes on to line 47
chat_begin_Unvalidated(r, data) ==
    LET user_message == Get(data, "message", "")
        session_id == Get(data, "session_id", DefaultSessionId)
        req == [Idle EXCEPT !.kind = "chat", !.session_id = session_id,
                            !.user_message = user_message, !.rows0 = Len(messages)]
    IN  /\ NoneDone
        /\ Free(r)
        /\ reqs' = [Reopen(session_id) EXCEPT ![r] =
                      [req EXCEPT !.pc = IF session_id \notin DOMAIN chat_sessions
                                         THEN "get_session" ELSE "lookup"]]
        /\ UNCHANGED <<sessions, messages, chat_sessions, now>>

\* lines 39-47: read the body, validate, test the map
chat_begin(r, data) ==
    LET user_message == Get(data, "message", "")
        session_id == Get(data, "session_id", DefaultSessionId)
        req == [Idle EXCEPT !.kind = "chat", !.session_id = session_id,
                            !.user_message = user_message, !.rows0 = Len(messages)]
    IN  /\ NoneDone
        /\ Free(r)
        /\ IF user_message = ""
           THEN /\ reqs' = Return([reqs EXCEPT ![r] = req], r, 400,
                                  [error |-> "No message provided"])
           ELSE /\ reqs' = [Reopen(session_id) EXCEPT ![r] =
                              [req EXCEPT !.pc = IF session_id \notin DOMAIN chat_sessions
                                                 THEN "get_session" ELSE "lookup"]]
        /\ UNCHANGED <<sessions, messages, chat_sessions, now>>

\* lines 49-50: session = db.get_session(session_id)
chat_get_session(r) ==
    /\ NoneDone
    /\ reqs[r].kind = "chat" /\ reqs[r].pc = "get_session"
    /\ reqs' = [reqs EXCEPT ![r].pc = IF get_session(reqs[r].session_id) = None
                                      THEN "create_session" ELSE "get_messages"]
    /\ UNCHANGED <<sessions, messages, chat_sessions, now>>

\* line 52: db.create_session(session_id); the INSERT of an id that has a row
\* by now raises IntegrityError, caught at line 86
chat_create_session(r) ==
    /\ NoneDone
    /\ reqs[r].kind = "chat" /\ reqs[r].pc = "create_session"
    /\ IF reqs[r].session_id \in DOMAIN sessions
       THEN /\ reqs' = Return(reqs, r, 500, [error |-> "IntegrityError"])
            /\ UNCHANGED sessions
       ELSE /\ sessions' = SessionsAfterCreate(reqs[r].session_id, <<>>)
            /\ reqs' = [reqs EXCEPT ![r].pc = "get_messages"]
    /\ UNCHANGED <<messages, chat_sessions, now>>

\* line 55: messages = db.get_messages(session_id)
chat_get_messages(r) ==
    /\ NoneDone
    /\ reqs[r].kind = "chat" /\ reqs[r].pc = "get_messages"
    /\ \E msgs \in get_messages(reqs[r].session_id) :
          reqs' = [reqs EXCEPT ![r].pc = "start_chat", ![r].messages = msgs]
    /\ UNCHANGED <<sessions, messages, chat_sessions, now>>

\* lines 56-64: chat_sessions[session_id] = model.start_chat(history=history)
chat_start_chat(r) ==
    /\ NoneDone
    /\ reqs[r].kind = "chat" /\ reqs[r].pc = "start_chat"
    /\ chat_sessions' = WithEntry(reqs[r].session_id, History(reqs[r].messages))
    /\ reqs' = Unhold(r, reqs[r].session_id, [reqs EXCEPT ![r].pc = "lookup"])
    /\ UNCHANGED <<sessions, messages, now>>

\* line 66: chat = chat_sessions[session_id]; KeyError when the entry is gone
chat_lookup(r) ==
    /\ NoneDone
    /\ reqs[r].kind = "chat" /\ reqs[r].pc = "lookup"
    /\ reqs' = IF reqs[r].session_id \in DOMAIN chat_sessions
               THEN [reqs EXCEPT ![r].pc = "add_user", ![r].live = TRUE,
                                 ![r].messages = <<>>]
               ELSE Return(reqs, r, 500, [error |-> "KeyError"])
    /\ UNCHANGED <<sessions, messages, chat_sessions, now>>

\* the user message saved only once the provider has answered: line 69 moved
\* below line 72
chat_add_user_Late(r) ==
    /\ NoneDone
    /\ reqs[r].kind = "chat" /\ reqs[r].pc = "add_user"
    /\ reqs' = [reqs EXCEPT ![r].pc = "send_message"]
    /\ UNCHANGED <<sessions, messages, chat_sessions, now>>

\* line 69: db.add_message(session_id, 'user', user_message)
chat_add_user(r) ==
    /\ NoneDone
    /\ reqs[r].kind = "chat" /\ reqs[r].pc = "add_user"
    /\ Room
    /\ messages' = MessagesAfterAdd(reqs[r].session_id, "user", reqs[r].user_message, <<>>)
    /\ sessions' = SessionsAfterAdd(reqs[r].session_id, "user", reqs[r].user_message)
    /\ reqs' = [reqs EXCEPT ![r].pc = "send_message"]
    /\ UNCHANGED <<chat_sessions, now>>

\* line 72: response = chat.send_message(user_message) answers; the chat object
\* appends the user turn and the model turn to its history
chat_send_message(r) ==
    /\ NoneDone
    /\ reqs[r].kind = "chat" /\ reqs[r].pc = "send_message"
    /\ \E text \in Replies :
          /\ reqs' = [reqs EXCEPT ![r].pc = "add_assistant",
                                  ![r].resp = [text |-> text]]
          /\ chat_sessions' =
                IF reqs[r].live
                THEN [chat_sessions EXCEPT ![reqs[r].session_id] =
                        @ \o <<[role |-> "user", parts |-> <<reqs[r].user_message>>],
                               [role |-> "model", parts |-> <<text>>]>>]
                ELSE chat_sessions
    /\ UNCHANGED <<sessions, messages, now>>

\* line 72 raises (network, auth, rate limit, content filter): caught at line 86
chat_send_fails(r) ==
    /\ NoneDone
    /\ reqs[r].kind = "chat" /\ reqs[r].pc = "send_message"
    /\ reqs' = Return(reqs, r, 500, [error |-> "UpstreamError"])
    /\ UNCHANGED <<sessions, messages, chat_sessions, now>>

\* lines 75-84: format, db.add_message(session_id, 'assistant', ...), respond
chat_add_assistant(r) ==
    /\ NoneDone
    /\ reqs[r].kind = "chat" /\ reqs[r].pc = "add_assistant"
    /\ Room
    /\ LET text == reqs[r].resp.text
           formatted_response == format_message(text)
       IN  /\ messages' = MessagesAfterAdd(reqs[r].session_id, "assistant", text,
                                           <<formatted_response>>)
           /\ sessions' = SessionsAfterAdd(reqs[r].session_id, "assistant", text)
           /\ reqs' = Return(reqs, r, 200,
                             [response |-> formatted_response, raw_response |-> text,
                              session_id |-> reqs[r].session_id])
    /\ UNCHANGED <<chat_sessions, now>>

---------------------------------------------------------------------------
(* DELETE /sessions/<session_id> and POST /clear: src/app.py *)

\* the deletion request r for sid returns; the /chat requests for sid that have
\* found no entry in the map (line 47) and have not stored their own yet
\* (line 64) are marked as overtaken by it
Overtake(sid, rq) ==
    [x \in Requests |->
        IF /\ rq[x].kind = "chat" /\ rq[x].session_id = sid
           /\ rq[x].pc \in {"get_session", "create_session", "get_messages", "start_chat"}
        THEN [rq[x] EXCEPT !.overtaken = TRUE]
        ELSE rq[x]]

\* delete_session, line 118: db.delete_session(session_id)
delete_begin(r, session_id) ==
    /\ NoneDone
    /\ Free(r)
    /\ sessions' = SessionsAfterDelete(session_id)
    /\ messages' = MessagesAfterDelete(session_id)
    /\ reqs' = [reqs EXCEPT ![r] =
                  [Idle EXCEPT !.kind = "delete", !.session_id = session_id, !.pc = "check"]]
    /\ UNCHANGED <<chat_sessions, now>>

\* clear_chat, lines 132-136: session_id from the body, db.delete_session(session_id);
\* from there on clear_chat is the code of delete_session, and the request is
\* one of that kind
clear_begin(r, data) ==
    LET session_id == Get(data, "session_id", DefaultSessionId)
    IN  /\ NoneDone
        /\ Free(r)
        /\ sessions' = SessionsAfterDelete(session_id)
        /\ messages' = MessagesAfterDelete(session_id)
        /\ reqs' = [reqs EXCEPT ![r] =
                      [Idle EXCEPT !.kind = "delete", !.session_id = session_id, !.pc = "check"]]
        /\ UNCHANGED <<chat_sessions, now>>

\* lines 121 and 139: if session_id in chat_sessions
delete_check(r) ==
    /\ NoneDone
    /\ reqs[r].kind = "delete" /\ reqs[r].pc = "check"
    /\ IF reqs[r].session_id \in DOMAIN chat_sessions
       THEN reqs' = [reqs EXCEPT ![r].pc = "del"]
       ELSE reqs' = Overtake(reqs[r].session_id, Return(reqs, r, 200, [message |-> "ok"]))
    /\ UNCHANGED <<sessions, messages, chat_sessions, now>>

\* lines 122 and 140: del chat_sessions[session_id]; KeyError when another
\* request removed the entry since the test
delete_del(r) ==
    /\ NoneDone
    /\ reqs[r].kind = "delete" /\ reqs[r].pc = "del"
    /\ IF reqs[r].session_id \in DOMAIN chat_sessions
       THEN /\ chat_sessions' = WithoutEntry(reqs[r].session_id)
            /\ reqs' = Overtake(reqs[r].session_id,
                               Unhold(r, reqs[r].session_id,
                                      Return(reqs, r, 200, [message |-> "ok"])))
       ELSE /\ reqs' = Overtake(reqs[r].session_id,
                               Return(reqs, r, 500, [error |-> "KeyError"]))
            /\ UNCHANGED chat_sessions
    /\ UNCHANGED <<sessions, messages, now>>

---------------------------------------------------------------------------
(* GET /export/<session_id>/<format>: src/app.py, export_session *)

\* lines 166-167: the format test
export_begin(r, session_id, format) ==
    /\ NoneDone
    /\ Free(r)
    /\ LET req == [Idle EXCEPT !.kind = "export", !.session_id = session_id,
                               !.format = format]
       IN  reqs' = IF format \notin {"json", "txt"}
                   THEN Return([reqs EXCEPT ![r] = req], r, 400,
                               [error |-> "Invalid format. Use json or txt"])
                   ELSE [reqs EXCEPT ![r] = [req EXCEPT !.pc = "export_get_session"]]
    /\ UNCHANGED <<sessions, messages, chat_sessions, now>>

\* database.py line 185: session = self.get_session(session_id)
export_get_session(r) ==
    /\ NoneDone
    /\ reqs[r].kind = "export" /\ reqs[r].pc = "export_get_session"
    /\ reqs' = [reqs EXCEPT ![r].pc = "export_get_messages",
                            ![r].session = get_session(reqs[r].session_id)]
    /\ UNCHANGED <<sessions, messages, chat_sessions, now>>

\* database.py lines 186-205 and app.py lines 169-187: read the messages, render,
\* send the file; an exception of the rendering is caught at line 186
export_get_messages(r) ==
    /\ NoneDone
    /\ reqs[r].kind = "export" /\ reqs[r].pc = "export_get_messages"
    /\ \E msgs \in get_messages(reqs[r].session_id) :
          LET export_data == export_session(reqs[r].session, msgs, reqs[r].format)
          IN  reqs' = IF export_data.kind = "raise"
                      THEN Return(reqs, r, 500, [error |-> export_data.exc])
                      ELSE Return(reqs, r, 200, export_data)
    /\ UNCHANGED <<sessions, messages, chat_sessions, now>>

---------------------------------------------------------------------------
(* db.export_session(session_id, format) called directly: src/database.py *)

\* the call begins; the method has no test of the format ahead of its reads
db_export_begin(r, session_id, format) ==
    /\ NoneDone
    /\ Free(r)
    /\ reqs' = [reqs EXCEPT ![r] =
                  [Idle EXCEPT !.kind = "db_export", !.session_id = session_id,
                               !.format = format, !.pc = "export_get_session"]]
    /\ UNCHANGED <<sessions, messages, chat_sessions, now>>

\* line 185: session = self.get_session(session_id)
db_export_get_session(r) ==
    /\ NoneDone
    /\ reqs[r].kind = "db_export" /\ reqs[r].pc = "export_get_session"
    /\ reqs' = [reqs EXCEPT ![r].pc = "export_get_messages",
                            ![r].session = get_session(reqs[r].session_id)]
    /\ UNCHANGED <<sessions, messages, chat_sessions, now>>

\* lines 186-205: messages = self.get_messages(session_id), then the branch on
\* the format: the rendering is returned or the exception raised to the caller
db_export_get_messages(r) ==
    /\ NoneDone
    /\ reqs[r].kind = "db_export" /\ reqs[r].pc = "export_get_messages"
    /\ \E msgs \in get_messages(reqs[r].session_id) :
          reqs' = Return(reqs, r, 0, export_session(reqs[r].session, msgs, reqs[r].format))
    /\ UNCHANGED <<sessions, messages, chat_sessions, now>>

---------------------------------------------------------------------------
(* POST /search: src/app.py, search, and src/database.py, search_messages *)

\* LIMIT ? with the default of the parameter limit
SearchLimit == 50

\* LIKE compares ASCII letters without regard to case: the letters of the
\* texts in use that have an upper case form
LowerChar(c) ==
    CASE c = "H" -> "h"
      [] c = "N" -> "n"
      [] c = "C" -> "c"
      [] c = "T" -> "t"
      [] OTHER -> c

RECURSIVE Lower(_)
Lower(text) ==
    IF text = "" THEN ""
    ELSE LowerChar(SubSeq(text, 1, 1)) \o Lower(SubSeq(text, 2, Len(text)))

\* content LIKE '%query%' for a query without wildcard characters
Like(content, query) ==
    \E i \in 1..(Len(content) - Len(query) + 1) :
        Lower(SubSeq(content, i, i + Len(query) - 1)) = Lower(query)

\* ORDER BY m.timestamp DESC: the rows in some order with non-increasing timestamps
OrderByTimestampDesc(rows) ==
    {[i \in 1..Len(rows) |-> rows[p[i]]] :
        p \in {q \in Orderings(Len(rows)) :
                 \A i, j \in 1..Len(rows) :
                    i < j => rows[q[i]].timestamp >= rows[q[j]].timestamp}}

\* the dict search_messages builds from a row of the join
SearchDict(m) ==
    [session_id |-> m.session_id, session_title |-> sessions[m.session_id].title,
     sender |-> m.sender, content |-> m.content, timestamp |-> m.timestamp]

\* search_messages: the results the call can return in the current state
search_messages(query) ==
    LET joined == SelectSeq(messages, LAMBDA m : /\ m.session_id \in DOMAIN sessions
                                                 /\ Like(m.content, query))
    IN  {[i \in 1..(IF Len(rows) < SearchLimit THEN Len(rows) ELSE SearchLimit) |->
            SearchDict(rows[i])] : rows \in OrderByTimestampDesc(joined)}

\* lines 151-155: read the body; an empty query is answered with no results
search_begin(r, data) ==
    LET query == Get(data, "query", "")
        req == [Idle EXCEPT !.kind = "search", !.query = query]
    IN  /\ NoneDone
        /\ Free(r)
        /\ reqs' = IF query = ""
                   THEN Return([reqs EXCEPT ![r] = req], r, 200, [results |-> <<>>])
                   ELSE [reqs EXCEPT ![r] = [req EXCEPT !.pc = "search_messages"]]
        /\ UNCHANGED <<sessions, messages, chat_sessions, now>>

\* lines 157-158: results = db.search_messages(query)
search_search_messages(r) ==
    /\ NoneDone
    /\ reqs[r].kind = "search" /\ reqs[r].pc = "search_messages"
    /\ \E results \in search_messages(reqs[r].query) :
          reqs' = Return(reqs, r, 200, [results |-> results])
    /\ UNCHANGED <<sessions, messages, chat_sessions, now>>

---------------------------------------------------------------------------
(* Specifications *)

\* a step of the /chat, DELETE /sessions/<id> or /clear handler of slot r
Mutating(r, bodies) ==
    \/ \E data \in bodies : chat_begin(r, data)
    \/ chat_get_session(r)
    \/ chat_create_session(r)
    \/ chat_get_messages(r)
    \/ chat_start_chat(r)
    \/ chat_lookup(r)
    \/ chat_add_user(r)
    \/ chat_send_message(r)
    \/ chat_send_fails(r)
    \/ chat_add_assistant(r)
    \/ \E sid \in SessionIds : delete_begin(r, sid)
    \/ \E data \in ClearBodies : clear_begin(r, data)
    \/ delete_check(r)
    \/ delete_del(r)
    \/ respond(r)

\* a step of the export handler of slot r
Exporting(r) ==
    \/ \E sid \in SessionIds, format \in Formats : export_begin(r, sid, format)
    \/ export_get_session(r)
    \/ export_get_messages(r)

\* a direct call of a Store method
StoreCall ==
    \/ \E id \in SessionIds, title \in TitleArgs : db_create_session(id, title)
    \/ \E sid \in SessionIds, a \in AddArgs : db_add_message(sid, a[1], a[2])
    \/ \E id \in SessionIds : db_delete_session(id)

\* a step of a direct call of export_session in slot r
DirectExport(r) ==
    \/ \E sid \in SessionIds, format \in Formats : db_export_begin(r, sid, format)
    \/ db_export_get_session(r)
    \/ db_export_get_messages(r)

\* a step of the search handler of slot r
Searching(r) ==
    \/ \E data \in SearchBodies : search_begin(r, data)
    \/ search_search_messages(r)

\* a direct call of a Store method that writes, with the messages of an exchange
Populate ==
    \/ \E id \in SessionIds, title \in TitleArgs : db_create_session(id, title)
    \/ \E sid \in SessionIds, a \in QueryAddArgs : db_add_message(sid, a[1], a[2])
    \/ \E id \in SessionIds : db_delete_session(id)

\* the requests of the handlers that write run concurrently, all of them within
\* one second of the clock
Next == (\E r \in Requests : Mutating(r, ConcurrentChatBodies)) \/ restart

Spec == Init /\ [][Next]_vars

\* one request at a time
NextSeq == Mutating("r1", ChatBodies) \/ Exporting("r1") \/ Tick \/ restart

SpecSeq == Init /\ [][NextSeq]_vars

\* the Store alone, called directly
NextStore == StoreCall \/ Tick

SpecStore == Init /\ [][NextStore]_vars

\* the operations that only read (export through the handler and directly,
\* search), one at a time, while the Store is written to
NextQuery ==
    \/ Populate
    \/ Tick
    \/ Exporting("r1")
    \/ DirectExport("r1")
    \/ Searching("r1")
    \/ respond("r1")

SpecQuery == Init /\ [][NextQuery]_vars

---------------------------------------------------------------------------
(* Properties *)

\* the rows of sid as get_messages would return them in insertion order
InInsertionOrder(sid) == [i \in 1..Len(RowsOf(sid)) |-> MessageDict(RowsOf(sid)[i])]

\* the request of slot r has returned (its response is being delivered)
Returned(r, kind) == reqs[r].kind = kind /\ reqs[r].pc = "done"

\* C1: whenever a step deletes the session row of id, no message of id is left
\* in the Store after the step, and get_messages(id) returns the empty sequence.
C1_Cascade ==
    [][\A id \in SessionIds :
          (id \in DOMAIN sessions /\ id \notin DOMAIN sessions')
             => (RowsOf(id)' = <<>> /\ get_messages(id)' = {<<>>})]_vars

\* C2: every stored message's session_id is the id of a session row that exists.
C2_Referential ==
    \A i \in 1..Len(messages) : messages[i].session_id \in DOMAIN sessions

C4_UpstreamFailure ==
    \A r \in Requests :
        (Returned(r, "chat") /\ reqs[r].resp = [error |-> "UpstreamError"])
           => /\ reqs[r].status = 500
              /\ Len(messages) = reqs[r].rows0 + 1
              /\ messages[Len(messages)].session_id = reqs[r].session_id
              /\ messages[Len(messages)].sender = "user"
              /\ messages[Len(messages)].content = reqs[r].user_message
              /\ reqs[r].session_id \in DOMAIN sessions

\* C4 witness: a provider failure on a session that already held an exchange
C4_Witness ==
    \E r \in Requests :
        /\ Returned(r, "chat") /\ reqs[r].resp = [error |-> "UpstreamError"]
        /\ reqs[r].rows0 >= 1

StepFrom(r, kind, pc) ==
    reqs[r].kind = kind /\ reqs[r].pc = pc /\ reqs'[r].pc # pc

\* a /chat request for id that a returned deletion of id has overtaken between
\* its map test and its store into the map
Overtaken(id) ==
    \E r \in Requests :
        reqs[r].kind = "chat" /\ reqs[r].session_id = id /\ reqs[r].overtaken

\* a deletion request (DELETE /sessions/<id> or /clear) for id returns in this step
DeletionReturns(id) ==
    \E r \in Requests :
        /\ reqs[r].kind = "delete" /\ reqs[r].session_id = id
        /\ reqs[r].pc # "done" /\ reqs'[r].pc = "done"

StateOf(a) ==
    [session |-> get_session(a), rows |-> RowsOf(a),
     entry |-> IF a \in DOMAIN chat_sessions THEN <<chat_sessions[a]>> ELSE <<>>]

\* C7: a step of a request on session b leaves the session row, the stored
\* messages and the map entry of every other session a unchanged.
C7_NonInterference ==
    [][\A r \in Requests :
          reqs'[r] # reqs[r]
             => \A a \in SessionIds \ {reqs[r].session_id, reqs'[r].session_id} :
                   StateOf(a)' = StateOf(a)]_vars

\* C7 witness: requests on two sessions in flight together, both sessions
\* holding a row, messages and a map entry
C7_Witness ==
    /\ \A a \in SessionIds :
          a \in DOMAIN sessions /\ a \in DOMAIN chat_sessions /\ RowsOf(a) # <<>>
    /\ reqs["r1"].pc \notin {"idle", "done"} /\ reqs["r2"].pc \notin {"idle", "done"}
    /\ reqs["r1"].session_id # reqs["r2"].session_id

\* the history the claim describes for the loaded messages
Replayed(history, msgs) ==
    /\ Len(history) = Len(msgs)
    /\ \A i \in 1..Len(msgs) :
          /\ history[i].role = IF msgs[i].sender = "user" THEN "user" ELSE "model"
          /\ history[i].parts = <<msgs[i].content>>

\* C8: a /chat request with a non-empty message for an id without a map entry
\* creates the session row iff the Store has none, and stores a context whose
\* history is the get_messages(id) sequence, user-sent messages as user turns
\* and the others as model turns; with a map entry the request goes to line 66
\* at once and reads nothing from the Store.
C8_Rehydration ==
    [][\A r \in Requests :
          LET id == reqs'[r].session_id IN
          /\ (reqs[r].pc = "idle" /\ reqs'[r].kind = "chat" /\ reqs'[r].user_message # "")
                => reqs'[r].pc = IF id \in DOMAIN chat_sessions THEN "lookup"
                                 ELSE "get_session"
          /\ StepFrom(r, "chat", "get_session")
                => /\ UNCHANGED <<sessions, messages, chat_sessions>>
                   /\ reqs'[r].pc = IF id \in DOMAIN sessions THEN "get_messages"
                                    ELSE "create_session"
          /\ StepFrom(r, "chat", "create_session")
                => /\ id \notin DOMAIN sessions
                   /\ DOMAIN sessions' = DOMAIN sessions \cup {id}
                   /\ sessions'[id].title = DefaultTitle
                   /\ \A s \in DOMAIN sessions : sessions'[s] = sessions[s]
                   /\ UNCHANGED <<messages, chat_sessions>>
          /\ StepFrom(r, "chat", "start_chat")
                => /\ id \in DOMAIN sessions
                   /\ id \in DOMAIN chat_sessions'
                   /\ \E msgs \in get_messages(id) : Replayed(chat_sessions'[id], msgs)
                   /\ \A s \in DOMAIN chat_sessions \ {id} :
                         s \in DOMAIN chat_sessions' /\ chat_sessions'[s] = chat_sessions[s]
                   /\ UNCHANGED <<sessions, messages>>
          /\ StepFrom(r, "chat", "lookup")
                => UNCHANGED <<sessions, messages, chat_sessions>>]_vars

\* C8 witness: a context rebuilt from a stored user message and a stored
\* assistant message
C8_Witness ==
    \E r \in Requests :
        /\ reqs[r].kind = "chat" /\ reqs[r].pc = "lookup"
        /\ Len(reqs[r].messages) = 2
        /\ reqs[r].messages[1].sender = "user"
        /\ reqs[r].messages[2].sender = "assistant"
        /\ reqs[r].session_id \in DOMAIN chat_sessions
        /\ chat_sessions[reqs[r].session_id] =
              <<[role |-> "user", parts |-> <<reqs[r].messages[1].content>>],
                [role |-> "model", parts |-> <<reqs[r].messages[2].content>>]>>

\* C9: a /chat request whose message is missing or empty returns in its first
\* step with status 400 and the error envelope, and the step changes neither
\* the sessions table, nor the messages table, nor the session map.
C9_Validation ==
    [][\A r \in Requests :
          (reqs[r].pc = "idle" /\ reqs'[r].kind = "chat" /\ reqs'[r].user_message = "")
             => /\ reqs'[r].pc = "done"
                /\ reqs'[r].status = 400
                /\ DOMAIN reqs'[r].resp = {"error"}
                /\ UNCHANGED <<sessions, messages, chat_sessions>>]_vars

\* C9 witness: a rejected request for a session id seen neither by the Store nor
\* by the map
C9_Witness ==
    \E r \in Requests :
        /\ Returned(r, "chat") /\ reqs[r].user_message = "" /\ reqs[r].status = 400
        /\ reqs[r].session_id \notin DOMAIN sessions
        /\ reqs[r].session_id \notin DOMAIN chat_sessions
        /\ messages # <<>>

\* C10: an export (json or txt) of an id that has no session row returns a
\* document, for json one with a null session and an empty messages list.
C10_ExportMissing ==
    \A r \in Requests :
        (Returned(r, "export") /\ reqs[r].format \in {"json", "txt"} /\ reqs[r].session = None)
           => /\ reqs[r].status = 200
              /\ reqs[r].format = "json"
                    => (reqs[r].resp.session = None /\ reqs[r].resp.messages = <<>>)

\* an export of slot r, through the handler or by the direct call, whose format
\* is neither json nor txt
Unsupported(r) ==
    reqs[r].kind \in {"export", "db_export"} /\ reqs[r].format \notin {"json", "txt"}

\* C11: an export whose format is neither json nor txt performs no read of the
\* Store (it takes no step at the reads of lines 185 and 186 of database.py)
\* and returns the unsupported-format error: status 400 with the error
\* envelope from the handler, the exception from the direct call.
C11_UnsupportedFormat ==
    [][\A r \in Requests :
          /\ Unsupported(r) => /\ ~StepFrom(r, reqs[r].kind, "export_get_session")
                               /\ ~StepFrom(r, reqs[r].kind, "export_get_messages")
          /\ (Unsupported(r)' /\ reqs[r].pc # "done" /\ reqs'[r].pc = "done")
                => IF reqs'[r].kind = "export"
                   THEN reqs'[r].status = 400 /\ DOMAIN reqs'[r].resp = {"error"}
                   ELSE reqs'[r].resp = [kind |-> "raise", exc |-> "ValueError"]]_vars

\* the label the claim gives a sender in the txt export
Label(sender) == IF sender = "user" THEN "USER" ELSE "ASSISTANT"

\* C12: an export of an existing session that returns a document renders a
\* result of get_messages(id) in the Store state of its read: the json
\* document's messages list has its length and, position by position, its
\* sender and content; the txt document has one entry per message, in that
\* order, with the content and the upper-cased sender as label.
C12_ExportRoundTrip ==
    [][\A r \in Requests :
          (/\ StepFrom(r, "export", "export_get_messages")
           /\ reqs[r].session # None
           /\ reqs[r].session_id \in DOMAIN sessions)
             => /\ reqs'[r].status = 200
                /\ \E msgs \in get_messages(reqs[r].session_id) :
                      IF reqs[r].format = "json"
                      THEN /\ Len(reqs'[r].resp.messages) = Len(msgs)
                           /\ \A i \in 1..Len(msgs) :
                                 /\ reqs'[r].resp.messages[i].sender = msgs[i].sender
                                 /\ reqs'[r].resp.messages[i].content = msgs[i].content
                      ELSE /\ Len(reqs'[r].resp.entries) = Len(msgs)
                           /\ \A i \in 1..Len(msgs) :
                                 /\ reqs'[r].resp.entries[i].label = Label(msgs[i].sender)
                                 /\ reqs'[r].resp.entries[i].content = msgs[i].content]_vars

\* C12 witness: a txt export of a session holding a user message and the
\* assistant's reply has returned both, labelled USER and ASSISTANT
C12_Witness ==
    \E r \in Requests :
        /\ Returned(r, "export") /\ reqs[r].status = 200 /\ reqs[r].format = "txt"
        /\ reqs[r].session_id \in DOMAIN sessions
        /\ Len(RowsOf(reqs[r].session_id)) = 2
        /\ Len(reqs[r].resp.entries) = 2
        /\ reqs[r].resp.entries[1].label = "USER"
        /\ reqs[r].resp.entries[2].label = "ASSISTANT"

\* C13: a /search request whose query is missing or empty returns in its first
\* step with status 400 and the error envelope, and the step changes neither
\* the sessions table, nor the messages table, nor the session map.
C13_SearchValidation ==
    [][\A r \in Requests :
          (reqs[r].pc = "idle" /\ reqs'[r].kind = "search" /\ reqs'[r].query = "")
             => /\ reqs'[r].pc = "done"
                /\ reqs'[r].status = 400
                /\ DOMAIN reqs'[r].resp = {"error"}
                /\ UNCHANGED <<sessions, messages, chat_sessions>>]_vars

\* the title the claim describes for a first user message with content c
Described(title, c) ==
    IF Len(c) <= 50
    THEN title = c
    ELSE /\ Len(title) = 53
         /\ SubSeq(title, 1, 50) = SubSeq(c, 1, 50)
         /\ SubSeq(title, 51, 53) = "..."

\* C14: add_message of a user message with content c to a session whose title
\* is the default leaves the title c if c has at most 50 characters and
\* otherwise the first 50 characters of c followed by "..."; create_session
\* without a title makes a row whose title is "New Chat".
C14_DerivedTitle ==
    [][/\ \A sid \in SessionIds, a \in AddArgs :
             (/\ db_add_message(sid, a[1], a[2])
              /\ a[1] = "user"
              /\ sid \in DOMAIN sessions
              /\ sessions[sid].title = "New Chat")
                => Described(sessions'[sid].title, a[2])
       /\ \A id \in SessionIds :
             db_create_session(id, <<>>)
                => id \in DOMAIN sessions' /\ sessions'[id].title = "New Chat"]_vars

\* C14 witness: a session created without a title holds a first user message
\* of 52 characters and is titled by its first 50 characters and the ellipsis
C14_Witness ==
    \E id \in DOMAIN sessions :
        /\ Len(RowsOf(id)) = 1
        /\ RowsOf(id)[1].sender = "user" /\ RowsOf(id)[1].content = LongText
        /\ Len(LongText) = 52
        /\ sessions[id].title = "abcdefghijklmnopqrstuvwxyzabcdefghijklmnopqrstuvwx..."

\* no request for id is in flight
Quiet(id) == \A r \in Requests : reqs[r].session_id = id => Free(r)

\* C15: whenever the map holds a context for id and no request for id is in
\* flight, the history of the context is the role translation of a result of
\* get_messages(id): as many turns as the Store has messages of id, each with
\* the role of the sender and the content of its message.
C15_RouterStoreAgreement ==
    \A id \in DOMAIN chat_sessions :
        Quiet(id) => \E msgs \in get_messages(id) : Replayed(chat_sessions[id], msgs)

\* C16: a /chat request that creates the session of its id again (line 52: the
\* id has no session row, as after /clear or DELETE /sessions/<id>) finds no
\* message of that id in the Store, so that the history lines 55-61 build for
\* its context is empty and the session's list holds only what is appended
\* from then on.
C16_FreshStartAfterClear ==
    [][\A r \in Requests :
          (StepFrom(r, "chat", "create_session") /\ reqs'[r].pc = "get_messages")
             => /\ RowsOf(reqs[r].session_id)' = <<>>
                /\ \A msgs \in get_messages(reqs[r].session_id)' : History(msgs) = <<>>]_vars

\* C17: no /chat request returns with the duplicate-key error of create_session.
C17_NoDuplicateKey ==
    \A r \in Requests :
        Returned(r, "chat") => reqs[r].resp # [error |-> "IntegrityError"]

====
